---- MODULE Spec2Model ----
(***************************************************************************)
(* Model of the Sinhala dubbing bot (src/server.js and the parser variant  *)
(* of src/unnamed/part_001): SRT parsing, timestamp parsing, speech        *)
(* synthesis and the audio compositing step.                               *)
(*                                                                         *)
(* Strings are TLA+ strings; a JavaScript number is a record               *)
(* [nan, ms]: nan is TRUE for NaN, otherwise ms is the value in            *)
(* thousandths (a time of 1.1 seconds is [nan |-> FALSE, ms |-> 1100]).    *)
(***************************************************************************)
EXTENDS Integers, Sequences, FiniteSets, TLC

VARIABLES
  timeStr,        \* parseTime: the argument
  timeResult,     \* parseTime: <<>> before the call, then <<its outcome>>
  doc,            \* the blocks the input was written from, <<>> for free text
  srtText,        \* parseSRT: the argument subtitleText
  lines,          \* parseSRT: subtitleText.split('\n')
  pos,            \* parseSRT: index of the next line of the for loop
  heap,           \* parseSRT: the cue objects created so far
  subtitles,      \* parseSRT: the array subtitles, as references into heap
  currentSub,     \* parseSRT: reference held by currentSub, 0 for null
  ppc,            \* parseSRT: "loop", "returned" or "threw"
  jpc,            \* document handler: the statement it is at or awaits
  segIndex,       \* document handler: the synthesis loop's counter i
  audioSegments,  \* document handler: the array audioSegments
  ttsCalls,       \* every generateSinhalaSpeech call so far, with its outcome
  totalDuration,  \* the video's duration in thousandths of a second
  tempFiles,      \* createDubbedAudio: indices of the segments written to files
  overlays,       \* createDubbedAudio: the adelay inputs of the mix, in order
  output,         \* createDubbedAudio: the track written to outputPath
  pending,        \* the TTS requests in flight
  elapsed,        \* milliseconds waited since the last synthesis call returned
  ffmpegRuns,     \* the ffmpeg commands run so far, each with its result
  outputSize,     \* <<>>, then <<stats.size>> of the muxed file
  delivered,      \* TRUE once replyWithVideo has sent the video
  failure,        \* <<>>, then the error caught by the handler's catch
  tempDir,        \* the job's directory: "none", "present", "removed", "undeletable"
  voiceText,      \* detectVoiceType: the argument text
  voiceRand,      \* detectVoiceType: what Math.random() yields, in hundredths
  voiceResult,    \* detectVoiceType: <<>> before the call, then <<its result>>
  userSessions,   \* the Map userSessions: user id -> reference into sessions, 0 if none
  sessions,       \* the session objects created so far
  now,            \* Date.now(), in milliseconds
  handlers,       \* the video and document handler invocations, in order of arrival
  dirs            \* the directories that exist under tmpdir()

vars == <<timeStr, timeResult, doc, srtText, lines, pos, heap, subtitles,
          currentSub, ppc, jpc, segIndex, audioSegments, ttsCalls,
          totalDuration, tempFiles, overlays, output, pending, elapsed,
          ffmpegRuns, outputSize, delivered, failure, tempDir, voiceText,
          voiceRand, voiceResult, userSessions, sessions, now, handlers, dirs>>

-----------------------------------------------------------------------------
(* JavaScript string primitives *)

Whitespace == {" ", "\t", "\r", "\n"}

Digits == "0123456789"

CharAt(s, i) == SubSeq(s, i, i)

IsDigit(c) == \E d \in 1..10 : CharAt(Digits, d) = c

DigitVal(c) == (CHOOSE d \in 1..10 : CharAt(Digits, d) = c) - 1

\* first index >= from at which pat occurs in s, 0 if none
IndexOf(s, pat, from) ==
  LET hits == {i \in from..(Len(s) - Len(pat) + 1) :
                 SubSeq(s, i, i + Len(pat) - 1) = pat}
  IN IF hits = {} THEN 0 ELSE CHOOSE i \in hits : \A j \in hits : i <= j

includes(s, pat) == IndexOf(s, pat, 1) # 0

RECURSIVE split(_, _)
split(s, sep) ==
  LET i == IndexOf(s, sep, 1)
  IN IF i = 0 THEN <<s>>
     ELSE <<SubSeq(s, 1, i - 1)>> \o split(SubSeq(s, i + Len(sep), Len(s)), sep)

\* String.prototype.replace with a string pattern: the first occurrence only
replace(s, pat, rep) ==
  LET i == IndexOf(s, pat, 1)
  IN IF i = 0 THEN s
     ELSE SubSeq(s, 1, i - 1) \o rep \o SubSeq(s, i + Len(pat), Len(s))

trimStart(s) ==
  LET keep == {i \in 1..Len(s) : CharAt(s, i) \notin Whitespace}
  IN IF keep = {} THEN ""
     ELSE SubSeq(s, CHOOSE i \in keep : \A j \in keep : i <= j, Len(s))

trim(s) ==
  LET keep == {i \in 1..Len(s) : CharAt(s, i) \notin Whitespace}
  IN IF keep = {} THEN ""
     ELSE SubSeq(s, CHOOSE i \in keep : \A j \in keep : i <= j,
                    CHOOSE i \in keep : \A j \in keep : i >= j)

\* number of leading decimal digits of s
DigitRun(s) ==
  LET stop == {i \in 1..Len(s) : ~IsDigit(CharAt(s, i))}
  IN IF stop = {} THEN Len(s)
     ELSE (CHOOSE i \in stop : \A j \in stop : i <= j) - 1

RECURSIVE DecimalValue(_)
DecimalValue(s) ==
  IF s = "" THEN 0
  ELSE 10 * DecimalValue(SubSeq(s, 1, Len(s) - 1)) + DigitVal(CharAt(s, Len(s)))

NaN == [nan |-> TRUE, ms |-> 0]

Num(ms) == [nan |-> FALSE, ms |-> ms]

HasSign(s) == Len(s) > 0 /\ CharAt(s, 1) \in {"+", "-"}

Signed(s, v) == IF HasSign(s) /\ CharAt(s, 1) = "-" THEN 0 - v ELSE v

\* parseInt(s) in radix 10: leading whitespace, a sign, the longest digit prefix
parseInt(str) ==
  LET s == trimStart(str)
      body == IF HasSign(s) THEN SubSeq(s, 2, Len(s)) ELSE s
      n == DigitRun(body)
  IN IF n = 0 THEN NaN
     ELSE Num(Signed(s, 1000 * DecimalValue(SubSeq(body, 1, n))))

\* parseFloat(s): digits, then an optional '.' and digits; fractional digits
\* after the third are below the unit of the model and are dropped
parseFloat(str) ==
  LET s == trimStart(str)
      body == IF HasSign(s) THEN SubSeq(s, 2, Len(s)) ELSE s
      n == DigitRun(body)
      rest == SubSeq(body, n + 1, Len(body))
      hasDot == Len(rest) > 0 /\ CharAt(rest, 1) = "."
      f == IF hasDot THEN DigitRun(SubSeq(rest, 2, Len(rest))) ELSE 0
      frac == SubSeq(SubSeq(rest, 2, 1 + f) \o "000", 1, 3)
  IN IF n = 0 /\ f = 0 THEN NaN
     ELSE Num(Signed(s, 1000 * DecimalValue(SubSeq(body, 1, n))
                        + DecimalValue(frac)))

\* a * k for an integer literal k, and a + b, with NaN propagating
Times(a, k) == IF a.nan THEN NaN ELSE Num(a.ms * k)

Plus(a, b) == IF a.nan \/ b.nan THEN NaN ELSE Num(a.ms + b.ms)

\* a / 1000 for an integer a
Div1000(a) == IF a.nan THEN NaN ELSE Num(a.ms \div 1000)

\* isNaN(s) of a non-empty string without surrounding whitespace: Number(s)
\* is a number when s is [+-] digits [. digits] or [+-] . digits
isNaN(s) ==
  LET body == IF HasSign(s) THEN SubSeq(s, 2, Len(s)) ELSE s
      n == DigitRun(body)
      rest == SubSeq(body, n + 1, Len(body))
      f == IF rest = "" THEN 0 ELSE DigitRun(SubSeq(rest, 2, Len(rest)))
  IN ~ \/ n > 0 /\ rest = ""
       \/ n + f > 0 /\ rest # "" /\ CharAt(rest, 1) = "." /\ f = Len(rest) - 1

\* outcome of a call: a returned value or an exception
Return(v) == [threw |-> FALSE, value |-> v]

Throw == [threw |-> TRUE, value |-> NaN]

\* array element i (1-based) of a destructuring or index: <<>> is undefined
At(arr, i) == IF i <= Len(arr) THEN <<arr[i]>> ELSE <<>>

-----------------------------------------------------------------------------
(* parseTime, src/server.js *)

\* parseTime of src/unnamed/part_001; t is <<>> for undefined, else <<string>>
parseTime001(t) ==
  IF t = <<>> THEN Throw
  ELSE LET fields == split(t[1], ":")
           hours == At(fields, 1)
           minutes == At(fields, 2)
           secondsMs == At(fields, 3)
       IN IF secondsMs = <<>> THEN Throw
          ELSE LET sm == split(secondsMs[1], ",")
                   seconds == At(sm, 1)
                   milliseconds == At(sm, 2)
                   msValue == IF milliseconds = <<>> THEN NaN
                              ELSE parseInt(milliseconds[1])
               IN Return(Plus(Plus(Plus(Times(parseInt(hours[1]), 3600),
                                        Times(parseInt(minutes[1]), 60)),
                                   parseInt(seconds[1])),
                              Div1000(msValue)))

\* parseTime written as in part_001: no try/catch, no check of the fields
parseTime_unguarded(s) == parseTime001(<<s>>)

\* parseTime without the replacement of the comma
parseTime_noReplace(s) ==
  LET parts == split(s, ":")
  IN IF Len(parts) = 3
     THEN Return(Plus(Plus(Times(parseInt(parts[1]), 3600),
                           Times(parseInt(parts[2]), 60)),
                      parseFloat(parts[3])))
     ELSE Return(Num(0))

parseTime(s) ==
  LET cleanTime == replace(s, ",", ".")
      parts == split(cleanTime, ":")
  IN IF Len(parts) = 3
     THEN LET hours == parseInt(parts[1])
              minutes == parseInt(parts[2])
              seconds == parseFloat(parts[3])
          IN Return(Plus(Plus(Times(hours, 3600), Times(minutes, 60)), seconds))
     ELSE Return(Num(0))

-----------------------------------------------------------------------------
(* Inputs of parseTime *)

MaxHours == 1

MinuteValues == {0, 59}

SecondValues == {0, 1, 59}

MilliValues == {0, 5, 100, 999}

DigitChar(d) == CharAt(Digits, d + 1)

Pad2(n) == DigitChar(n \div 10) \o DigitChar(n % 10)

Pad3(n) == DigitChar(n \div 100) \o Pad2(n % 100)

FormatTime(h, m, s, ms, sep) ==
  Pad2(h) \o ":" \o Pad2(m) \o ":" \o Pad2(s) \o sep \o Pad3(ms)

WellFormedTimes ==
  {FormatTime(h, m, s, ms, sep) :
     h \in 0..MaxHours, m \in MinuteValues, s \in SecondValues,
     ms \in MilliValues, sep \in {",", "."}}

MalformedTimes ==
  {"", "x", "1:2", "a:b:c", "::", "00:00:0a,100", "00:00:01", "1:2:3:4",
   "00:00:01,100,5", "00:0b:01.100", "-1:00:00,000", " 00:00:01,100",
   "00:00:,5"}

\* HH:MM:SS[.,]mmm
IsTimestamp(s) ==
  /\ Len(s) = 12
  /\ \A i \in {1, 2, 4, 5, 7, 8, 10, 11, 12} : IsDigit(CharAt(s, i))
  /\ CharAt(s, 3) = ":" /\ CharAt(s, 6) = ":"
  /\ CharAt(s, 9) \in {",", "."}

\* H*3600 + M*60 + S + mmm/1000 of a string of that form, in thousandths
TimestampValue(s) ==
  DecimalValue(SubSeq(s, 1, 2)) * 3600000 + DecimalValue(SubSeq(s, 4, 5)) * 60000
  + DecimalValue(SubSeq(s, 7, 8)) * 1000 + DecimalValue(SubSeq(s, 10, 12))

OtherSeparator(s) ==
  SubSeq(s, 1, 8) \o (IF CharAt(s, 9) = "," THEN "." ELSE ",") \o SubSeq(s, 10, 12)

-----------------------------------------------------------------------------
(* Specification of parseTime calls *)

ParserIdle ==
  /\ doc = <<>> /\ srtText = "" /\ lines = <<>> /\ pos = 0 /\ heap = <<>>
  /\ subtitles = <<>> /\ currentSub = 0 /\ ppc = "idle"

ParserVars == <<doc, srtText, lines, pos, heap, subtitles, currentSub, ppc>>

TimeVars == <<timeStr, timeResult>>

JobVars == <<jpc, segIndex, audioSegments, ttsCalls, totalDuration, tempFiles,
             overlays, output, pending, elapsed, ffmpegRuns, outputSize,
             delivered, failure, tempDir>>

JobIdle ==
  /\ jpc = "idle" /\ segIndex = 0 /\ audioSegments = <<>> /\ ttsCalls = <<>>
  /\ totalDuration = 0 /\ tempFiles = <<>> /\ overlays = <<>> /\ output = <<>>
  /\ pending = <<>> /\ elapsed = 0 /\ ffmpegRuns = <<>> /\ outputSize = <<>>
  /\ delivered = FALSE /\ failure = <<>> /\ tempDir = "none"

TimeIdle == timeStr = "" /\ timeResult = <<>>

VoiceVars == <<voiceText, voiceRand, voiceResult>>

VoiceIdle == voiceText = "" /\ voiceRand = 0 /\ voiceResult = <<>>

BotVars == <<userSessions, sessions, now, handlers, dirs>>

BotIdle ==
  /\ userSessions = <<>> /\ sessions = <<>> /\ now = 0
  /\ handlers = <<>> /\ dirs = {}

InitTime ==
  /\ VoiceIdle /\ BotIdle
  /\ timeStr \in WellFormedTimes \cup MalformedTimes
  /\ timeResult = <<>>
  /\ ParserIdle
  /\ JobIdle

CallParseTime ==
  /\ timeResult = <<>>
  /\ timeResult' = <<parseTime(timeStr)>>
  /\ UNCHANGED <<VoiceVars, BotVars, timeStr, ParserVars, JobVars>>

NextTime == CallParseTime

SpecTime == InitTime /\ [][NextTime]_vars

\* C6: parseTime returns 0 for every string that is not of the form
\* HH:MM:SS[.,]mmm, so no start or end time is a not-a-number value.
C6_MalformedTimeIsZero ==
  (timeResult # <<>> /\ ~IsTimestamp(timeStr)) => timeResult[1] = Return(Num(0))

\* C7: for a well-formed HH:MM:SS[.,]mmm timestamp parseTime returns
\* H*3600 + M*60 + S + mmm/1000, the same with a comma as with a period.
C7_WellFormedTimeValue ==
  (timeResult # <<>> /\ IsTimestamp(timeStr)) =>
     /\ timeResult[1] = Return(Num(TimestampValue(timeStr)))
     /\ timeResult[1] = parseTime(OtherSeparator(timeStr))

C7_Witness ==
  /\ timeStr = "00:00:01,100"
  /\ timeResult = <<Return(Num(1100))>>

-----------------------------------------------------------------------------
(* parseSRT, src/server.js.  Cue objects live in heap; subtitles and        *)
(* currentSub hold references, so that a cue pushed twice or changed after *)
(* its push is visible in the returned array.                              *)

NewCue(start, end) == [startTime |-> start, endTime |-> end, text |-> ""]

Line == lines[pos]

Trimmed == trim(Line)

InLoop == ppc = "loop" /\ pos <= Len(lines)

Pushed == IF currentSub # 0 THEN Append(subtitles, currentSub) ELSE subtitles

\* the array parseSRT returns
Returned == [i \in 1..Len(subtitles) |-> heap[subtitles[i]]]

\* the blank-line branch as a bare continue, the open cue kept open
ParseBlank_noEmit ==
  /\ InLoop /\ Trimmed = ""
  /\ pos' = pos + 1
  /\ UNCHANGED <<VoiceVars, BotVars,
                 TimeVars, JobVars, doc, srtText, lines, heap, subtitles,
                 currentSub, ppc>>

\* if (!trimmed) { if (currentSub) { push; currentSub = null } continue }
ParseBlank ==
  /\ InLoop /\ Trimmed = ""
  /\ subtitles' = Pushed
  /\ currentSub' = 0
  /\ pos' = pos + 1
  /\ UNCHANGED <<VoiceVars, BotVars,
                 TimeVars, JobVars, doc, srtText, lines, heap, ppc>>

\* the timestamp branch with the push of the open cue left out
ParseTimestamp_noPush ==
  /\ InLoop /\ Trimmed # "" /\ includes(Trimmed, "-->")
  /\ LET parts == split(Trimmed, " --> ")
     IN IF Len(parts) = 2
        THEN LET start == parseTime(parts[1])
                 end == parseTime(parts[2])
             IN IF start.threw \/ end.threw
                THEN ppc' = "threw" /\ UNCHANGED <<heap, currentSub, pos>>
                ELSE /\ heap' = Append(heap, NewCue(start.value, end.value))
                     /\ currentSub' = Len(heap) + 1
                     /\ pos' = pos + 1
                     /\ UNCHANGED ppc
        ELSE pos' = pos + 1 /\ UNCHANGED <<heap, currentSub, ppc>>
  /\ UNCHANGED <<VoiceVars, BotVars,
                 TimeVars, JobVars, doc, srtText, lines, subtitles>>

\* if (trimmed.includes('-->')) { if (currentSub) push;
\*   parts = trimmed.split(' --> ');
\*   if (parts.length === 2) currentSub = {startTime: parseTime(parts[0]),
\*                                         endTime: parseTime(parts[1]), text: ''} }
ParseTimestamp ==
  /\ InLoop /\ Trimmed # "" /\ includes(Trimmed, "-->")
  /\ subtitles' = Pushed
  /\ LET parts == split(Trimmed, " --> ")
     IN IF Len(parts) = 2
        THEN LET start == parseTime(parts[1])
                 end == parseTime(parts[2])
             IN IF start.threw \/ end.threw
                THEN ppc' = "threw" /\ UNCHANGED <<heap, currentSub, pos>>
                ELSE /\ heap' = Append(heap, NewCue(start.value, end.value))
                     /\ currentSub' = Len(heap) + 1
                     /\ pos' = pos + 1
                     /\ UNCHANGED ppc
        ELSE pos' = pos + 1 /\ UNCHANGED <<heap, currentSub, ppc>>
  /\ UNCHANGED <<VoiceVars, BotVars, TimeVars, JobVars, doc, srtText, lines>>

\* a number line discarded whether a cue is open or not
ParseIndex_always ==
  /\ InLoop /\ Trimmed # "" /\ ~includes(Trimmed, "-->")
  /\ ~isNaN(Trimmed)
  /\ pos' = pos + 1
  /\ UNCHANGED <<VoiceVars, BotVars, TimeVars, JobVars, doc, srtText, lines,
                 heap, subtitles, currentSub, ppc>>

\* else if (!isNaN(trimmed) && currentSub === null) continue
ParseIndex ==
  /\ InLoop /\ Trimmed # "" /\ ~includes(Trimmed, "-->")
  /\ ~isNaN(Trimmed) /\ currentSub = 0
  /\ pos' = pos + 1
  /\ UNCHANGED <<VoiceVars, BotVars,
                 TimeVars, JobVars, doc, srtText, lines, heap, subtitles,
                 currentSub, ppc>>

\* currentSub.text += (currentSub.text ? joiner : '') + trimmed
AppendText(joiner) ==
  LET old == heap[currentSub].text
  IN heap' = [heap EXCEPT ![currentSub].text =
                old \o (IF old # "" THEN joiner ELSE "") \o Trimmed]

\* else if (currentSub) currentSub.text += ...
ParseText ==
  /\ InLoop /\ Trimmed # "" /\ ~includes(Trimmed, "-->")
  /\ ~(~isNaN(Trimmed) /\ currentSub = 0)
  /\ currentSub # 0
  /\ AppendText("\n")
  /\ pos' = pos + 1
  /\ UNCHANGED <<VoiceVars, BotVars,
                 TimeVars, JobVars, doc, srtText, lines, subtitles, currentSub,
                 ppc>>

\* a line that is not a number, read while no cue is open: no branch taken
ParseSkip ==
  /\ InLoop /\ Trimmed # "" /\ ~includes(Trimmed, "-->")
  /\ isNaN(Trimmed) /\ currentSub = 0
  /\ pos' = pos + 1
  /\ UNCHANGED <<VoiceVars, BotVars,
                 TimeVars, JobVars, doc, srtText, lines, heap, subtitles,
                 currentSub, ppc>>

\* after the loop: if (currentSub) push; return subtitles
ParseReturn ==
  /\ ppc = "loop" /\ pos > Len(lines)
  /\ subtitles' = Pushed
  /\ ppc' = "returned"
  /\ UNCHANGED <<VoiceVars, BotVars,
                 TimeVars, JobVars, doc, srtText, lines, pos, heap,
                 currentSub>>

-----------------------------------------------------------------------------
(* Inputs of parseSRT *)

MaxLines == 3

MaxBlocks == 2

TimestampLines ==
  {<<"00:00:00,000", "00:00:02,000">>, <<"00:00:02.000", "00:00:04,500">>}

\* the text lines a block can have
BlockTexts == {<<"Hello">>, <<"7">>, <<"Hello", "7", "World">>}

\* lines of free (possibly malformed) input
LinePool ==
  {"", "1", "Hello", " World\r", "00:01:02.000 --> 00:01:04,500",
   "00:00:01,000-->00:00:02,000", "a:b:c --> 1:2"}

RECURSIVE Join(_, _)
Join(seq, sep) ==
  IF seq = <<>> THEN ""
  ELSE IF Len(seq) = 1 THEN seq[1]
  ELSE seq[1] \o sep \o Join(Tail(seq), sep)

SeqsUpTo(S, n) == UNION {[1..k -> S] : k \in 0..n}

FreeTexts == {Join(ls, "\n") : ls \in SeqsUpTo(LinePool, MaxLines)}

\* a block: its separator line's two timestamps, its text lines, and whether
\* a blank line follows it
Blocks ==
  [ts : TimestampLines, texts : BlockTexts, blank : BOOLEAN]

Docs == UNION {[1..n -> Blocks] : n \in 1..MaxBlocks}

BlockLines(d, i) ==
  <<DigitChar(i), d[i].ts[1] \o " --> " \o d[i].ts[2]>> \o d[i].texts
  \o (IF d[i].blank THEN <<"">> ELSE <<>>)

RECURSIVE DocLines(_, _)
DocLines(d, i) ==
  IF i > Len(d) THEN <<>> ELSE BlockLines(d, i) \o DocLines(d, i + 1)

Render(d) == Join(DocLines(d, 1), "\n")

-----------------------------------------------------------------------------
(* Specification of parseSRT (server.js) calls *)

InitParse ==
  /\ VoiceIdle /\ BotIdle
  /\ TimeIdle
  /\ JobIdle
  /\ \/ doc = <<>> /\ srtText \in FreeTexts
     \/ doc \in Docs /\ srtText = Render(doc)
  /\ lines = split(srtText, "\n")
  /\ pos = 1
  /\ heap = <<>>
  /\ subtitles = <<>>
  /\ currentSub = 0
  /\ ppc = "loop"

NextParse ==
  \/ ParseBlank
  \/ ParseTimestamp
  \/ ParseIndex
  \/ ParseText
  \/ ParseSkip
  \/ ParseReturn

SpecParse == InitParse /\ [][NextParse]_vars

\* C4: parseSRT of server.js never throws; for every input it runs to its
\* return statement and returns a list of cue objects.
C4_ParseNeverThrows ==
  /\ ppc \in {"loop", "returned"}
  /\ ppc = "returned" =>
       /\ pos = Len(lines) + 1
       /\ \A i \in 1..Len(subtitles) : subtitles[i] \in 1..Len(heap)

C4_Witness ==
  /\ ppc = "returned"
  /\ \E i, j \in 1..Len(lines) :
       /\ lines[i] = "00:00:01,000-->00:00:02,000"
       /\ lines[j] = "a:b:c --> 1:2"

SeparatorLines == {i \in 1..Len(lines) : includes(lines[i], "-->")}

\* C8: for well-formed indexed input, with or without blank lines between
\* the blocks, parseSRT returns as many cues as there are separator lines.
C8_CueCountIsSeparatorCount ==
  (doc # <<>> /\ ppc = "returned") =>
     /\ Len(Returned) = Cardinality(SeparatorLines)
     /\ Len(Returned) = Len(doc)

C8_Witness ==
  /\ doc # <<>> /\ ppc = "returned"
  /\ Len(doc) = 2 /\ ~doc[1].blank
  /\ Len(Returned) = 2

BlankSeparated(d) == \A i \in 1..(Len(d) - 1) : d[i].blank

ExpectedCue(b) ==
  [startTime |-> Num(TimestampValue(b.ts[1])),
   endTime |-> Num(TimestampValue(b.ts[2])),
   text |-> Join(b.texts, "\n")]

\* C9: for well-formed indexed input with blank lines between the blocks,
\* the i-th returned cue has the times of the i-th separator line and the
\* text lines of the i-th block joined with a newline, and nothing else.
C9_CuesInSourceOrder ==
  (doc # <<>> /\ BlankSeparated(doc) /\ ppc = "returned") =>
     Returned = [i \in 1..Len(doc) |-> ExpectedCue(doc[i])]

C9_Witness ==
  /\ doc # <<>> /\ BlankSeparated(doc) /\ ppc = "returned"
  /\ Len(doc) = 2 /\ Len(doc[1].texts) = 3
  /\ Returned[2].startTime = Num(2000)
  /\ Returned[1].text = "Hello\n7\nWorld"

-----------------------------------------------------------------------------
(* parseSRT, src/unnamed/part_001 *)

\* if (!trimmed) continue
Parse001Blank ==
  /\ InLoop /\ Trimmed = ""
  /\ pos' = pos + 1
  /\ UNCHANGED <<VoiceVars, BotVars,
                 TimeVars, JobVars, doc, srtText, lines, heap, subtitles,
                 currentSub, ppc>>

\* if (currentSub) push; const [start, end] = trimmed.split(' --> ');
\* currentSub = {startTime: parseTime(start), endTime: parseTime(end), text: ''}
Parse001Timestamp ==
  /\ InLoop /\ Trimmed # "" /\ includes(Trimmed, "-->")
  /\ subtitles' = Pushed
  /\ LET parts == split(Trimmed, " --> ")
         start == parseTime001(At(parts, 1))
         end == parseTime001(At(parts, 2))
     IN IF start.threw \/ end.threw
        THEN ppc' = "threw" /\ UNCHANGED <<heap, currentSub, pos>>
        ELSE /\ heap' = Append(heap, NewCue(start.value, end.value))
             /\ currentSub' = Len(heap) + 1
             /\ pos' = pos + 1
             /\ UNCHANGED ppc
  /\ UNCHANGED <<VoiceVars, BotVars, TimeVars, JobVars, doc, srtText, lines>>

\* else if (currentSub && !isNaN(trimmed)) continue
Parse001Index ==
  /\ InLoop /\ Trimmed # "" /\ ~includes(Trimmed, "-->")
  /\ currentSub # 0 /\ ~isNaN(Trimmed)
  /\ pos' = pos + 1
  /\ UNCHANGED <<VoiceVars, BotVars,
                 TimeVars, JobVars, doc, srtText, lines, heap, subtitles,
                 currentSub, ppc>>

\* else if (currentSub) currentSub.text += (currentSub.text ? ' ' : '') + trimmed
Parse001Text ==
  /\ InLoop /\ Trimmed # "" /\ ~includes(Trimmed, "-->")
  /\ currentSub # 0 /\ isNaN(Trimmed)
  /\ AppendText(" ")
  /\ pos' = pos + 1
  /\ UNCHANGED <<VoiceVars, BotVars,
                 TimeVars, JobVars, doc, srtText, lines, subtitles, currentSub,
                 ppc>>

\* any other line read while no cue is open: no branch taken
Parse001Skip ==
  /\ InLoop /\ Trimmed # "" /\ ~includes(Trimmed, "-->")
  /\ currentSub = 0
  /\ pos' = pos + 1
  /\ UNCHANGED <<VoiceVars, BotVars,
                 TimeVars, JobVars, doc, srtText, lines, heap, subtitles,
                 currentSub, ppc>>

NextParse001 ==
  \/ Parse001Blank
  \/ Parse001Timestamp
  \/ Parse001Index
  \/ Parse001Text
  \/ Parse001Skip
  \/ ParseReturn

SpecParse001 == InitParse /\ [][NextParse001]_vars

\* C5: parseSRT of part_001 never throws, whatever the input.
C5_Parse001NeverThrows == ppc \in {"loop", "returned"}

-----------------------------------------------------------------------------
(* detectVoiceType and generateSinhalaSpeech, src/server.js *)

\* "@" stands for a character of the Sinhala block U+0D80..U+0DFF
SinhalaChars == {"@"}

\* text.replace(/[^\u0D80-\u0DFF]/g, '').length
SinhalaLength(text) ==
  Cardinality({k \in 1..Len(text) : CharAt(text, k) \in SinhalaChars})

\* the punctuation test made before the length test
detectVoiceType_punctuationFirst(text, rand) ==
  IF includes(text, "?") \/ includes(text, "!")
  THEN (IF rand > 70 THEN "child" ELSE "female")
  ELSE IF SinhalaLength(text) < 15 THEN "child"
  ELSE IF rand < 40 THEN "female"
  ELSE IF rand < 70 THEN "male"
  ELSE "child"

\* rand is the value Math.random() yields, in hundredths
detectVoiceType(text, rand) ==
  IF SinhalaLength(text) < 15 THEN "child"
  ELSE IF includes(text, "?") \/ includes(text, "!")
       THEN (IF rand > 70 THEN "child" ELSE "female")
  ELSE IF rand < 40 THEN "female"
  ELSE IF rand < 70 THEN "male"
  ELSE "child"

\* the params with a rate of its own for the male profile
TtsRequest_maleRate(text, voiceType) ==
  [ie |-> "UTF-8", q |-> text, tl |-> "si", total |-> "1", idx |-> "0",
   textlen |-> Len(text), client |-> "tw-ob", prev |-> "input",
   ttsspeed |-> IF voiceType = "child" THEN "0.8"
                ELSE IF voiceType = "male" THEN "0.9" ELSE "1.0"]

\* the params of the axios request
TtsRequest(text, voiceType) ==
  [ie |-> "UTF-8", q |-> text, tl |-> "si", total |-> "1", idx |-> "0",
   textlen |-> Len(text), client |-> "tw-ob", prev |-> "input",
   ttsspeed |-> IF voiceType = "child" THEN "0.8" ELSE "1.0"]

\* what the TTS request does: resolves with a body, resolves with a body
\* Buffer.from cannot read, or is rejected (network, status, quota)
AudioData == {<<>>, <<1, 2>>}

TtsResponses ==
  {[kind |-> "ok", data |-> d] : d \in AudioData}
  \cup {[kind |-> "nodata", data |-> <<>>], [kind |-> "rejected", data |-> <<>>]}

\* the fallback of part_001: a placeholder buffer of silence, not an empty one
generateSinhalaSpeech_placeholder(text, voiceType, response) ==
  IF response.kind = "ok" THEN Return(response.data) ELSE Return(<<0>>)

\* try { response = await axios(...); return Buffer.from(response.data) }
\* catch (error) { return Buffer.alloc(0) }
generateSinhalaSpeech(text, voiceType, response) ==
  IF response.kind = "ok" THEN Return(response.data) ELSE Return(<<>>)

-----------------------------------------------------------------------------
(* createDubbedAudio, src/server.js *)

\* the first loop with the skip of empty audio left out
RECURSIVE WrittenSegments_noSkip(_, _)
WrittenSegments_noSkip(segs, n) ==
  IF n = 0 THEN <<>> ELSE Append(WrittenSegments_noSkip(segs, n - 1), n)

\* the first loop: segment i is written to a file unless its audio is empty
RECURSIVE WrittenSegments(_, _)
WrittenSegments(segs, n) ==
  IF n = 0 THEN <<>>
  ELSE IF segs[n].audio = <<>> THEN WrittenSegments(segs, n - 1)
  ELSE Append(WrittenSegments(segs, n - 1), n)

\* the second loop: input k+1 of the mix is the k-th file written, and its
\* adelay is read from audioSegments[k], the loop running over tempFiles
FilterOverlays(segs, files) ==
  [k \in 1..Len(files) |->
     [audio |-> segs[files[k]].audio, delay |-> Times(segs[k].start, 1000)]]

ScheduledOverlays(segs) == FilterOverlays(segs, WrittenSegments(segs, Len(segs)))

\* playing time of a clip, in thousandths of a second: one second a sample
ClipLength(audio) == Len(audio) * 1000

\* where an overlay ends on the track, in thousandths of a second
OverlayEnd(o) == o.delay.ms \div 1000 + ClipLength(o.audio)

SetMax(S) == CHOOSE x \in S : \A y \in S : y <= x

SetMin(S) == CHOOSE x \in S : \A y \in S : x <= y

\* amix cut at its first input, the silent base
AmixDuration_first == "first"

\* the duration option of the amix filter: amix=inputs=N:duration=longest
AmixDuration == "longest"

\* length of the amix output for inputs of the given lengths, first input first
AmixLength(base, ends) ==
  IF AmixDuration = "longest" THEN SetMax({base} \cup ends)
  ELSE IF AmixDuration = "shortest" THEN SetMin({base} \cup ends)
  ELSE base

\* the file at outputPath: the silent base of totalDuration alone (copyFile)
\* or mixed with the overlays (amix)
Track(duration, ovl) ==
  <<[base |-> duration, overlays |-> ovl,
     length |-> IF ovl = <<>> THEN duration
                ELSE AmixLength(duration,
                                {OverlayEnd(ovl[k]) : k \in 1..Len(ovl)})]>>

-----------------------------------------------------------------------------
(* The document handler of src/server.js from the creation of the job's    *)
(* directory on: downloads, parse, synthesis loop, duration probe,         *)
(* createDubbedAudio, mux, size check, delivery, catch and finally.        *)

MaxCues == 2

MaxLongCues == 52

SynthLimit == 50

InterCallDelay == 500

SizeThreshold == 1024

StartValues == {9000, 12000}

CueTexts == {"Hi", "@@@@@@@@@@@@@@@?"}

RandomValues == {50, 90}

ProbedDurations == {0, 10000}

OutputSizes == {0, 1023, 1024, 1025}

NoSubtitlesMessage == "No subtitles found in the file"

TooSmallMessage == "Output file too small"

CueObjects ==
  {[startTime |-> Num(st), endTime |-> Num(st + 2000), text |-> tx] :
     st \in StartValues, tx \in CueTexts}

Min(a, b) == IF a < b THEN a ELSE b

\* a request the service never answers
NoResponse == [kind |-> "never", data |-> <<>>]

JobStart ==
  /\ VoiceIdle /\ BotIdle
  /\ TimeIdle
  /\ doc = <<>> /\ srtText = "" /\ lines = <<>> /\ pos = 0
  /\ subtitles = <<>>
  /\ currentSub = 0
  /\ ppc = "idle"
  /\ jpc = "download"
  /\ segIndex = 0
  /\ audioSegments = <<>>
  /\ ttsCalls = <<>>
  /\ totalDuration = 0
  /\ tempFiles = <<>>
  /\ overlays = <<>>
  /\ output = <<>>
  /\ pending = <<>>
  /\ elapsed = 0
  /\ ffmpegRuns = <<>>
  /\ outputSize = <<>>
  /\ delivered = FALSE
  /\ failure = <<>>
  /\ tempDir = "present"

\* the state after fs.mkdir(tempDir); heap holds the cues of the subtitle
\* file the user sent
Init ==
  /\ JobStart
  /\ heap \in UNION {[1..n -> CueObjects] : n \in 0..MaxCues}

\* throw inside the handler's try block: control goes to its catch
Fail(message) == jpc' = "catch" /\ failure' = <<message>>

\* lines 333-350: the two axios downloads (with timeouts) and writeFile
Download ==
  /\ jpc = "download"
  /\ \/ jpc' = "parse" /\ UNCHANGED failure
     \/ Fail("download")
  /\ UNCHANGED <<VoiceVars, BotVars,
                 TimeVars, ParserVars, segIndex, audioSegments, ttsCalls,
                 totalDuration, tempFiles, overlays, output, pending, elapsed,
                 ffmpegRuns, outputSize, delivered, tempDir>>

\* the zero-cue test left out
NoSubtitles_never(subs) == FALSE

\* if (subtitles.length === 0)
NoSubtitles(subs) == Len(subs) = 0

\* lines 353-361: readFile, parseSRT, the zero-cue test, the progress reply
ParseSubtitles ==
  /\ jpc = "parse"
  /\ \/ /\ Fail("read")
        /\ UNCHANGED <<subtitles, ppc>>
     \/ /\ subtitles' = [k \in 1..Len(heap) |-> k]
        /\ ppc' = "returned"
        /\ IF NoSubtitles(subtitles')
           THEN Fail(NoSubtitlesMessage)
           ELSE \/ jpc' = "synth" /\ UNCHANGED failure
                \/ Fail("reply")
  /\ UNCHANGED <<VoiceVars, BotVars,
                 TimeVars, doc, srtText, lines, pos, heap, currentSub,
                 segIndex,
                 audioSegments, ttsCalls, totalDuration, tempFiles, overlays,
                 output, pending, elapsed, ffmpegRuns, outputSize, delivered,
                 tempDir>>

\* the loop bound without the cap
LoopBound_uncapped(n) == n

\* Math.min(subtitles.length, 50)
LoopBound(n) == Min(n, SynthLimit)

\* the head of a loop iteration: detectVoiceType, then the axios request of
\* generateSinhalaSpeech is sent; it has no timeout option
SynthesizeCallWith(behaviours) ==
  /\ jpc = "synth" /\ segIndex < LoopBound(Len(subtitles))
  /\ \E rand \in RandomValues, response \in behaviours :
       LET sub == Returned[segIndex + 1]
       IN pending' = Append(pending,
                            [text |-> sub.text,
                             voiceType |-> detectVoiceType(sub.text, rand),
                             response |-> response])
  /\ jpc' = "tts"
  /\ UNCHANGED <<VoiceVars, BotVars,
                 TimeVars, ParserVars, segIndex, audioSegments, ttsCalls,
                 totalDuration, tempFiles, overlays, output, elapsed,
                 ffmpegRuns, outputSize, delivered, failure, tempDir>>

SynthesizeCall == SynthesizeCallWith(TtsResponses \cup {NoResponse})

PushedSegment(sub, audio) ==
  Append(audioSegments,
         [audio |-> audio, start |-> sub.startTime, end |-> sub.endTime,
          text |-> SubSeq(sub.text, 1, Min(Len(sub.text), 100))])

\* the return with an empty clip treated as an error of the job
SynthesizeReturn_abortOnEmpty ==
  /\ jpc = "tts" /\ pending[1].response.kind # "never"
  /\ LET call == pending[1]
         outcome == generateSinhalaSpeech(call.text, call.voiceType, call.response)
     IN /\ ttsCalls' = Append(ttsCalls,
                              [voiceType |-> call.voiceType,
                               request |-> TtsRequest(call.text, call.voiceType),
                               response |-> call.response, outcome |-> outcome])
        /\ IF outcome.threw \/ outcome.value = <<>>
           THEN Fail("tts") /\ UNCHANGED audioSegments
           ELSE /\ audioSegments' =
                     PushedSegment(Returned[segIndex + 1], outcome.value)
                /\ jpc' = "delay"
                /\ UNCHANGED failure
  /\ pending' = <<>>
  /\ elapsed' = 0
  /\ UNCHANGED <<VoiceVars, BotVars,
                 TimeVars, ParserVars, segIndex, totalDuration, tempFiles,
                 overlays, output, ffmpegRuns, outputSize, delivered, tempDir>>

\* the response arrives: generateSinhalaSpeech returns, the segment is
\* pushed and the handler starts the setTimeout of 500 ms
SynthesizeReturn ==
  /\ jpc = "tts" /\ pending[1].response.kind # "never"
  /\ LET call == pending[1]
         outcome == generateSinhalaSpeech(call.text, call.voiceType, call.response)
     IN /\ ttsCalls' = Append(ttsCalls,
                              [voiceType |-> call.voiceType,
                               request |-> TtsRequest(call.text, call.voiceType),
                               response |-> call.response, outcome |-> outcome])
        /\ IF outcome.threw
           THEN Fail("tts") /\ UNCHANGED audioSegments
           ELSE /\ audioSegments' =
                     PushedSegment(Returned[segIndex + 1], outcome.value)
                /\ jpc' = "delay"
                /\ UNCHANGED failure
  /\ pending' = <<>>
  /\ elapsed' = 0
  /\ UNCHANGED <<VoiceVars, BotVars,
                 TimeVars, ParserVars, segIndex, totalDuration, tempFiles,
                 overlays, output, ffmpegRuns, outputSize, delivered, tempDir>>

\* the wait taken only after a clip that is not empty
SynthesizeDelay_skipOnEmpty ==
  /\ jpc = "delay"
  /\ elapsed' = (IF audioSegments[Len(audioSegments)].audio = <<>>
                 THEN elapsed ELSE elapsed + InterCallDelay)
  /\ segIndex' = segIndex + 1
  /\ jpc' = "synth"
  /\ UNCHANGED <<VoiceVars, BotVars,
                 TimeVars, ParserVars, audioSegments, ttsCalls, totalDuration,
                 tempFiles, overlays, output, pending, ffmpegRuns, outputSize,
                 delivered, failure, tempDir>>

\* await new Promise(resolve => setTimeout(resolve, 500)); i++
SynthesizeDelay ==
  /\ jpc = "delay"
  /\ elapsed' = elapsed + InterCallDelay
  /\ segIndex' = segIndex + 1
  /\ jpc' = "synth"
  /\ UNCHANGED <<VoiceVars, BotVars,
                 TimeVars, ParserVars, audioSegments, ttsCalls, totalDuration,
                 tempFiles, overlays, output, pending, ffmpegRuns, outputSize,
                 delivered, failure, tempDir>>

\* duration = await getVideoDuration(videoPath):
\* reject(err), or resolve(metadata.format.duration || 60)
ProbeDuration ==
  /\ jpc = "synth" /\ segIndex >= LoopBound(Len(subtitles))
  /\ \/ /\ Fail("probe")
        /\ UNCHANGED totalDuration
     \/ \E d \in ProbedDurations :
          /\ totalDuration' = (IF d # 0 THEN d ELSE 60000)
          /\ jpc' = "mix"
          /\ UNCHANGED failure
  /\ UNCHANGED <<VoiceVars, BotVars,
                 TimeVars, ParserVars, segIndex, audioSegments, ttsCalls,
                 tempFiles, overlays, output, pending, elapsed, ffmpegRuns,
                 outputSize, delivered, tempDir>>

\* what can fail from the progress reply of line 385 to the end of
\* createDubbedAudio: the reply, the silent base, a segment's writeFile, the
\* copy or the mix
MixFaults == {"none", "reply", "base", "write", "copy", "mix"}

Run(name, ok) == [name |-> name, ok |-> ok]

\* createDubbedAudio with a failed mix swallowed instead of rethrown
CreateDubbedAudio_swallow ==
  /\ jpc = "mix"
  /\ \E fault \in MixFaults :
       LET files == WrittenSegments(audioSegments, Len(audioSegments))
           base == Append(ffmpegRuns, Run("anullsrc", fault # "base"))
       IN /\ fault = "write" => files # <<>>
          /\ fault = "copy" => files = <<>>
          /\ fault = "mix" => files # <<>>
          /\ IF fault = "reply"
             THEN /\ Fail(fault)
                  /\ UNCHANGED <<ffmpegRuns, tempFiles, overlays, output>>
             ELSE IF fault \in {"base", "write"}
             THEN /\ Fail(fault)
                  /\ ffmpegRuns' = base
                  /\ UNCHANGED <<tempFiles, overlays, output>>
             ELSE /\ tempFiles' = files
                  /\ IF files = <<>>
                     THEN /\ ffmpegRuns' = base
                          /\ UNCHANGED overlays
                          /\ IF fault = "copy"
                             THEN Fail(fault) /\ UNCHANGED output
                             ELSE /\ output' = Track(totalDuration, <<>>)
                                  /\ jpc' = "mixed"
                                  /\ UNCHANGED failure
                     ELSE /\ ffmpegRuns' = Append(base, Run("amix", fault # "mix"))
                          /\ overlays' = FilterOverlays(audioSegments, files)
                          /\ jpc' = "mixed"
                          /\ UNCHANGED failure
                          /\ IF fault = "mix"
                             THEN UNCHANGED output
                             ELSE output' = Track(totalDuration, overlays')
  /\ UNCHANGED <<VoiceVars, BotVars,
                 TimeVars, ParserVars, segIndex, audioSegments, ttsCalls,
                 totalDuration, pending, elapsed, outputSize, delivered, tempDir>>

\* the progress reply, then createDubbedAudio(audioSegments,
\* dubbedAudioPath, duration): the silent base, the files of the non-empty
\* segments, then the copy of the base when no file was written, the amix
\* run otherwise; every error is rethrown
CreateDubbedAudio ==
  /\ jpc = "mix"
  /\ \E fault \in MixFaults :
       LET files == WrittenSegments(audioSegments, Len(audioSegments))
           base == Append(ffmpegRuns, Run("anullsrc", fault # "base"))
       IN /\ fault = "write" => files # <<>>
          /\ fault = "copy" => files = <<>>
          /\ fault = "mix" => files # <<>>
          /\ IF fault = "reply"
             THEN /\ Fail(fault)
                  /\ UNCHANGED <<ffmpegRuns, tempFiles, overlays, output>>
             ELSE IF fault \in {"base", "write"}
             THEN /\ Fail(fault)
                  /\ ffmpegRuns' = base
                  /\ UNCHANGED <<tempFiles, overlays, output>>
             ELSE /\ tempFiles' = files
                  /\ IF files = <<>>
                     THEN /\ ffmpegRuns' = base
                          /\ UNCHANGED overlays
                          /\ IF fault = "copy"
                             THEN Fail(fault) /\ UNCHANGED output
                             ELSE /\ output' = Track(totalDuration, <<>>)
                                  /\ jpc' = "mixed"
                                  /\ UNCHANGED failure
                     ELSE /\ ffmpegRuns' = Append(base, Run("amix", fault # "mix"))
                          /\ overlays' = FilterOverlays(audioSegments, files)
                          /\ IF fault = "mix"
                             THEN Fail(fault) /\ UNCHANGED output
                             ELSE /\ output' = Track(totalDuration, overlays')
                                  /\ jpc' = "mixed"
                                  /\ UNCHANGED failure
  /\ UNCHANGED <<VoiceVars, BotVars,
                 TimeVars, ParserVars, segIndex, audioSegments, ttsCalls,
                 totalDuration, pending, elapsed, outputSize, delivered, tempDir>>

\* lines 389-404: the progress reply, then ffmpeg replaces the audio of the
\* video by the dubbed track
Mux ==
  /\ jpc = "mixed"
  /\ \/ Fail("reply") /\ UNCHANGED ffmpegRuns
     \/ \E ok \in BOOLEAN :
          /\ ffmpegRuns' = Append(ffmpegRuns, Run("mux", ok))
          /\ IF ok THEN jpc' = "muxed" /\ UNCHANGED failure ELSE Fail("mux")
  /\ UNCHANGED <<VoiceVars, BotVars,
                 TimeVars, ParserVars, segIndex, audioSegments, ttsCalls,
                 totalDuration, tempFiles, overlays, output, pending, elapsed,
                 outputSize, delivered, tempDir>>

\* if (stats.size < 1024)
TooSmall(size) == size < SizeThreshold

\* lines 407-410: fs.stat(outputPath) and the size test
CheckOutput ==
  /\ jpc = "muxed"
  /\ \/ Fail("stat") /\ UNCHANGED outputSize
     \/ \E size \in OutputSizes :
          /\ outputSize' = <<size>>
          /\ IF TooSmall(size)
             THEN Fail(TooSmallMessage)
             ELSE jpc' = "deliver" /\ UNCHANGED failure
  /\ UNCHANGED <<VoiceVars, BotVars,
                 TimeVars, ParserVars, segIndex, audioSegments, ttsCalls,
                 totalDuration, tempFiles, overlays, output, pending, elapsed,
                 ffmpegRuns, delivered, tempDir>>

\* lines 413-420: the reply and replyWithVideo
Deliver ==
  /\ jpc = "deliver"
  /\ \/ /\ delivered' = TRUE
        /\ jpc' = "finally"
        /\ UNCHANGED failure
     \/ Fail("deliver") /\ UNCHANGED delivered
  /\ UNCHANGED <<VoiceVars, BotVars,
                 TimeVars, ParserVars, segIndex, audioSegments, ttsCalls,
                 totalDuration, tempFiles, overlays, output, pending, elapsed,
                 ffmpegRuns, outputSize, tempDir>>

\* the catch block with a failed report leaving the handler at once
ReportFailure_escapes ==
  /\ jpc = "catch"
  /\ \/ jpc' = "finally" /\ UNCHANGED failure
     \/ jpc' = "failed" /\ failure' = Append(failure, "report")
  /\ UNCHANGED <<VoiceVars, BotVars,
                 TimeVars, ParserVars, segIndex, audioSegments, ttsCalls,
                 totalDuration, tempFiles, overlays, output, pending, elapsed,
                 ffmpegRuns, outputSize, delivered, tempDir>>

\* catch (error): the reply with error.message; when the reply throws, the
\* finally block still runs before the error reaches the outer catch
ReportFailure ==
  /\ jpc = "catch"
  /\ jpc' = "finally"
  /\ \/ UNCHANGED failure
     \/ failure' = Append(failure, "report")
  /\ UNCHANGED <<VoiceVars, BotVars,
                 TimeVars, ParserVars, segIndex, audioSegments, ttsCalls,
                 totalDuration, tempFiles, overlays, output, pending, elapsed,
                 ffmpegRuns, outputSize, delivered, tempDir>>

\* finally: fs.rm(tempDir, {recursive, force}) with its error caught, then
\* userSessions.delete(userId); the job has ended
Cleanup ==
  /\ jpc = "finally"
  /\ \E removed \in BOOLEAN :
       tempDir' = (IF removed THEN "removed" ELSE "undeletable")
  /\ jpc' = (IF failure = <<>> THEN "delivered" ELSE "failed")
  /\ UNCHANGED <<VoiceVars, BotVars,
                 TimeVars, ParserVars, segIndex, audioSegments, ttsCalls,
                 totalDuration, tempFiles, overlays, output, pending, elapsed,
                 ffmpegRuns, outputSize, delivered, failure>>

Terminal == {"delivered", "failed"}

Next ==
  \/ Download
  \/ ParseSubtitles
  \/ SynthesizeCall
  \/ SynthesizeReturn
  \/ SynthesizeDelay
  \/ ProbeDuration
  \/ CreateDubbedAudio
  \/ Mux
  \/ CheckOutput
  \/ Deliver
  \/ ReportFailure
  \/ Cleanup

Spec == Init /\ [][Next]_vars

\* the scheduler runs the handler's continuation whenever one is ready
SpecLive == Spec /\ WF_vars(Next)

-----------------------------------------------------------------------------
(* createDubbedAudio on its own: any list of segments, the empty one too *)

SegmentObjects ==
  {[audio |-> a, start |-> Num(st), end |-> Num(st + 2000), text |-> "Hi"] :
     a \in AudioData, st \in StartValues}

InitMix ==
  /\ VoiceIdle /\ BotIdle
  /\ TimeIdle /\ ParserIdle
  /\ jpc = "mix"
  /\ segIndex = 0
  /\ audioSegments \in UNION {[1..n -> SegmentObjects] : n \in 0..MaxCues}
  /\ ttsCalls = <<>>
  /\ totalDuration \in {10000, 60000}
  /\ tempFiles = <<>>
  /\ overlays = <<>>
  /\ output = <<>>
  /\ pending = <<>>
  /\ elapsed = 0
  /\ ffmpegRuns = <<>>
  /\ outputSize = <<>>
  /\ delivered = FALSE
  /\ failure = <<>>
  /\ tempDir = "present"

NextMix == CreateDubbedAudio

SpecMix == InitMix /\ [][NextMix]_vars

-----------------------------------------------------------------------------
(* The job on a subtitle file of about SynthLimit cues, the service being  *)
(* down until the last calls before the cap.                               *)

LongCue(k) ==
  [startTime |-> Num(k * 1000), endTime |-> Num(k * 1000 + 500), text |-> "Hi"]

InitLong ==
  /\ JobStart
  /\ heap \in {[k \in 1..n |-> LongCue(k)] : n \in (SynthLimit - 1)..MaxLongCues}

\* the service rejects every request before the last one under the cap
SynthesizeCallLate ==
  /\ segIndex + 1 < SynthLimit
       => SynthesizeCallWith({[kind |-> "rejected", data |-> <<>>]})
  /\ segIndex + 1 >= SynthLimit
       => SynthesizeCallWith({[kind |-> "rejected", data |-> <<>>],
                              [kind |-> "ok", data |-> <<1, 2>>]})

NextLong ==
  \/ Download
  \/ ParseSubtitles
  \/ SynthesizeCallLate
  \/ SynthesizeReturn
  \/ SynthesizeDelay
  \/ ProbeDuration
  \/ CreateDubbedAudio
  \/ Mux
  \/ CheckOutput
  \/ Deliver
  \/ ReportFailure
  \/ Cleanup

SpecLong == InitLong /\ [][NextLong]_vars

-----------------------------------------------------------------------------
(* Properties of createDubbedAudio and generateSinhalaSpeech *)

RemoveAt(segs, k) == SubSeq(segs, 1, k - 1) \o SubSeq(segs, k + 1, Len(segs))

\* C1: a clip with empty samples has no effect: the overlays scheduled for
\* the list are those scheduled for the list without that clip.
C1_EmptyClipHasNoEffect ==
  jpc = "mixed" =>
    \A k \in 1..Len(audioSegments) :
       audioSegments[k].audio = <<>> =>
          overlays = ScheduledOverlays(RemoveAt(audioSegments, k))

\* C2: every clip with non-empty samples is overlaid with a delay equal to
\* its own start (start x 1000 ms), wherever it stands in the list.
C2_OverlayDelayIsOwnStart ==
  jpc = "mixed" =>
    /\ Len(overlays) = Len(tempFiles)
    /\ \A k \in 1..Len(tempFiles) :
         /\ audioSegments[tempFiles[k]].audio # <<>>
         /\ overlays[k] = [audio |-> audioSegments[tempFiles[k]].audio,
                           delay |-> Times(audioSegments[tempFiles[k]].start, 1000)]

StartsInside(seg) == seg.start.ms < totalDuration

\* C3: a clip whose start is at or after totalDuration is never scheduled:
\* the overlays are those of the list without every such clip.
C3_LateClipNeverScheduled ==
  jpc = "mixed" =>
    /\ \A k \in 1..Len(tempFiles) : StartsInside(audioSegments[tempFiles[k]])
    /\ overlays = ScheduledOverlays(SelectSeq(audioSegments, StartsInside))

\* C10: generateSinhalaSpeech never raises; a failed request gives a clip of
\* zero-length samples, and non-empty samples come from a successful
\* response only.
C10_SynthesisNeverRaises ==
  /\ \A k \in 1..Len(ttsCalls) :
       /\ ~ttsCalls[k].outcome.threw
       /\ ttsCalls[k].response.kind # "ok" => ttsCalls[k].outcome.value = <<>>
       /\ ttsCalls[k].outcome.value # <<>> =>
            /\ ttsCalls[k].response.kind = "ok"
            /\ ttsCalls[k].outcome.value = ttsCalls[k].response.data
  /\ Len(audioSegments) = Len(ttsCalls)
  /\ \A k \in 1..Len(audioSegments) :
       audioSegments[k].audio = ttsCalls[k].outcome.value

C10_Witness ==
  /\ Len(ttsCalls) = 2
  /\ ttsCalls[1].response.kind = "rejected"
  /\ ttsCalls[2].response.kind = "nodata"
  /\ audioSegments[1].audio = <<>> /\ audioSegments[2].audio = <<>>
  /\ jpc = "mixed"

-----------------------------------------------------------------------------
(* Properties of the job *)

\* the errors a stage of the job can raise
StageFailures ==
  {"download", "read", NoSubtitlesMessage, "reply", "probe", "base", "write",
   "copy", "mix", "mux", "stat", TooSmallMessage, "deliver"}

\* every synthesis call made so far has returned without audio
AllSynthesisFailed ==
  /\ ttsCalls # <<>>
  /\ \A k \in 1..Len(ttsCalls) : ttsCalls[k].outcome.value = <<>>

SilentBase(duration) ==
  <<[base |-> duration, overlays |-> <<>>, length |-> duration]>>

\* the request in flight is one the service never answers
Unanswered == jpc = "tts" /\ pending[1].response.kind = "never"

C12_SynthesisCallsCapped ==
  /\ Len(ttsCalls) + Len(pending) <= Min(Len(subtitles), 50)
  /\ \A k \in 1..Len(ttsCalls) :
       /\ ttsCalls[k].request.q = Returned[k].text
       /\ audioSegments[k].start = Returned[k].startTime
  /\ pending # <<>> => pending[1].text = Returned[Len(ttsCalls) + 1].text
  /\ totalDuration # 0 => Len(ttsCalls) = Min(Len(subtitles), 50)
  /\ \A k \in 1..Len(overlays) :
       \E j \in 1..Min(Len(subtitles), 50) :
          overlays[k].delay = Times(Returned[j].startTime, 1000)
  /\ failure # <<>> => failure[1] \in StageFailures

C12_Witness ==
  /\ Len(subtitles) = 52
  /\ Len(ttsCalls) = 50
  /\ Len(overlays) = 1
  /\ jpc = "delivered"

\* C13: every synthesis call is bounded by a timeout, so that a job always
\* reaches a terminal state (delivered or failed), even when the service
\* never answers a request.
C13_JobEventuallyTerminal == <>(jpc \in Terminal)

\* C14: the next synthesis call starts only after the 500 ms wait that
\* follows the return of the previous one, whatever that call returned, and
\* at most one call is in flight.
C14_CallsSpacedAndSerial ==
  /\ Len(pending) <= 1
  /\ pending # <<>> <=> jpc = "tts"
  /\ (jpc = "tts" /\ ttsCalls # <<>>) => elapsed >= 500
  /\ jpc = "delay" => elapsed = 0

C14_Witness ==
  /\ jpc = "tts"
  /\ Len(ttsCalls) = 1
  /\ ttsCalls[1].outcome.value = <<>>
  /\ elapsed = 500

\* C15: after a successful mux the video is delivered only when the size of
\* the output exceeds 1024 bytes; a size of 1024 or less fails the job.
C15_AtThresholdNotDelivered ==
  /\ delivered => outputSize[1] > 1024
  /\ (outputSize # <<>> /\ outputSize[1] <= 1024) =>
        jpc \in {"catch", "finally", "failed"} /\ failure # <<>>

AllClipsEmpty == \A k \in 1..Len(audioSegments) : audioSegments[k].audio = <<>>

Ran(name) == \E k \in 1..Len(ffmpegRuns) : ffmpegRuns[k].name = name

RanAndFailed(name) ==
  \E k \in 1..Len(ffmpegRuns) : ffmpegRuns[k].name = name /\ ~ffmpegRuns[k].ok

\* C16: createDubbedAudio on an empty list, or on a list whose clips are all
\* empty, writes exactly the silent base of length totalDuration and runs no
\* mix.
C16_NoClipsGivesSilentBase ==
  AllClipsEmpty =>
    /\ ~Ran("amix")
    /\ jpc = "mixed" =>
         /\ output = SilentBase(totalDuration)
         /\ tempFiles = <<>> /\ overlays = <<>>
         /\ ffmpegRuns = <<Run("anullsrc", TRUE)>>

C16_Witness ==
  /\ audioSegments = <<>>
  /\ jpc = "mixed"
  /\ output = SilentBase(60000)

\* C17: the composited track lasts as long as the longest of the base and
\* the overlay ends (delay plus clip length): no overlay is cut at
\* totalDuration and the track is never shorter than totalDuration.
C17_TrackCoversBaseAndOverlays ==
  output # <<>> =>
    /\ output[1].length >= totalDuration
    /\ \A k \in 1..Len(output[1].overlays) :
         output[1].length >=
           output[1].overlays[k].delay.ms \div 1000
             + Len(output[1].overlays[k].audio) * 1000
    /\ \/ output[1].length = totalDuration
       \/ \E k \in 1..Len(output[1].overlays) :
            output[1].length =
              output[1].overlays[k].delay.ms \div 1000
                + Len(output[1].overlays[k].audio) * 1000

C17_Witness ==
  /\ output # <<>>
  /\ totalDuration = 10000
  /\ output[1].length = 14000

\* C18: the job stops with 'No subtitles found in the file' exactly when the
\* parser returned no cue; then nothing is synthesized, composited or muxed,
\* and with one cue or more the job never stops for that reason.
C18_NoSubtitlesIffZeroCues ==
  ppc = "returned" =>
    /\ Len(subtitles) = 0 <=> (failure # <<>> /\ failure[1] = NoSubtitlesMessage)
    /\ Len(subtitles) = 0 =>
         /\ jpc \in {"catch", "finally", "failed"}
         /\ ttsCalls = <<>> /\ pending = <<>> /\ audioSegments = <<>>
         /\ ffmpegRuns = <<>> /\ output = <<>> /\ ~delivered

C18_Witness ==
  /\ jpc = "failed"
  /\ ppc = "returned" /\ subtitles = <<>>
  /\ failure = <<NoSubtitlesMessage>>

\* C19: a failed mix fails the compositing step: the error reaches the job,
\* no track is written, the mux is never started, no video is delivered, and
\* the job goes through its cleanup to the failed state.
C19_MixFailureFailsJob ==
  RanAndFailed("amix") =>
    /\ failure # <<>> /\ failure[1] = "mix"
    /\ output = <<>>
    /\ ~Ran("mux")
    /\ ~delivered
    /\ jpc \in {"catch", "finally", "failed"}
    /\ jpc # "failed" => ENABLED (ReportFailure \/ Cleanup)
    /\ jpc = "failed" => tempDir \in {"removed", "undeletable"}

C19_Witness ==
  /\ RanAndFailed("amix")
  /\ jpc = "failed"
  /\ tempDir = "removed"

\* C20: the temporary directory is removed on every way out of the job,
\* whichever stage failed, the report of the failure included; a job ends
\* with the directory present only if the removal itself failed.
C20_TempDirRemovedOnExit ==
  /\ jpc \in Terminal => tempDir \in {"removed", "undeletable"}
  /\ jpc \notin Terminal => tempDir = "present"
  /\ jpc \in {"catch", "finally"} => ENABLED (ReportFailure \/ Cleanup)

C20_Witness ==
  /\ jpc = "failed"
  /\ failure = <<"deliver", "report">>
  /\ tempDir = "removed"

-----------------------------------------------------------------------------
(* The session map and the video and document handlers of src/server.js.   *)
(* Each handler runs from one await to the next in one step; between two   *)
(* steps of a handler the steps of the others and the clock may happen.    *)

Upper == "ABCDEFGHIJKLMNOPQRSTUVWXYZ"

Lower == "abcdefghijklmnopqrstuvwxyz"

LowerChar(c) ==
  LET hits == {k \in 1..26 : CharAt(Upper, k) = c}
  IN IF hits = {} THEN c ELSE CharAt(Lower, CHOOSE k \in hits : TRUE)

RECURSIVE toLowerCase(_)
toLowerCase(str) ==
  IF str = "" THEN "" ELSE LowerChar(CharAt(str, 1)) \o toLowerCase(Tail(str))

endsWith(str, suffix) ==
  /\ Len(str) >= Len(suffix)
  /\ SubSeq(str, Len(str) - Len(suffix) + 1, Len(str)) = suffix

Users == {1, 2}

MaxUpdates == 3

\* the age beyond which the cleanup loop deletes a session, in milliseconds
SessionMaxAge == 3600000

\* the instants at which the clock is read
ClockValues == {0, 1, SessionMaxAge + 1}

\* document.file_name of an upload, <<>> when the message carries none
FileNames == {<<"Sub.SRT">>, <<"notes.txt">>, <<>>}

\* the errors thrown inside the try block of a job, by stage
JobErrors ==
  {[stage |-> "download", message |-> "timeout of 60000ms exceeded"],
   [stage |-> "download", message |-> "Request failed with status code 404"],
   [stage |-> "parse", message |-> NoSubtitlesMessage]}

\* https://api.telegram.org/file/bot<token>/<file_path> of upload h
FileUrl(h) == <<"file", h>>

\* the reply of the job's catch block: a fixed text around error.message
FailureReply(message) == "error: " \o message \o "\nplease try again"

GenericReply == "error! please try again"

NoHandler ==
  [kind |-> "none", user |-> 0, pc |-> "none", userSession |-> 0,
   tempDir |-> <<>>, error |-> <<>>, reply |-> ""]

InitBot ==
  /\ TimeIdle /\ ParserIdle /\ JobIdle /\ VoiceIdle
  /\ userSessions = [u \in Users |-> 0]
  /\ sessions = <<>>
  /\ now = 0
  /\ handlers = <<>>
  /\ dirs = {}

BotFrame == UNCHANGED <<TimeVars, ParserVars, JobVars, VoiceVars>>

Set(h, fields) ==
  [handlers EXCEPT ![h] = [f \in DOMAIN NoHandler |->
                             IF f \in DOMAIN fields THEN fields[f] ELSE @[f]]]

\* Date.now() moves on
Tick ==
  /\ \E t \in ClockValues : t > now /\ now' = t
  /\ UNCHANGED <<userSessions, sessions, handlers, dirs>>
  /\ BotFrame

\* the users an update can come from: a new user is the next one in order
Senders ==
  {u \in Users : \A v \in 1..(u - 1) :
                   \E h \in 1..Len(handlers) : handlers[h].user = v}

\* bot.on('video') up to await ctx.telegram.getFile(fileId)
VideoArrives ==
  /\ Len(handlers) < MaxUpdates
  /\ \E u \in Senders :
       handlers' = Append(handlers,
                          [NoHandler EXCEPT !.kind = "video", !.user = u,
                                            !.pc = "getFile"])
  /\ UNCHANGED <<userSessions, sessions, now, dirs>>
  /\ BotFrame

\* getFile has settled: userSessions.set(userId, {...}) and the reply, or
\* the catch block
VideoStore ==
  /\ \E h \in 1..Len(handlers) :
       /\ handlers[h].kind = "video" /\ handlers[h].pc = "getFile"
       /\ \/ /\ sessions' = Append(sessions,
                                   [videoUrl |-> FileUrl(h), videoFileId |-> h,
                                    timestamp |-> now, subtitleUrl |-> <<>>])
             /\ userSessions' =
                  [userSessions EXCEPT ![handlers[h].user] = Len(sessions) + 1]
             /\ handlers' = Set(h, [pc |-> "stored", reply |-> "video received"])
          \/ /\ handlers' = Set(h, [pc |-> "error", reply |-> GenericReply])
             /\ UNCHANGED <<userSessions, sessions>>
  /\ UNCHANGED <<now, dirs>>
  /\ BotFrame

\* if (now - session.timestamp > 3600000) userSessions.delete(id)
Expired(session, at) == at - session.timestamp > SessionMaxAge

\* the cleanup loop over userSessions.entries()
CleanOldSessions(map, at) ==
  [id \in Users |->
     IF map[id] # 0 /\ Expired(sessions[map[id]], at) THEN 0 ELSE map[id]]

\* the same with the cleanup of old sessions run before the rejections
DocumentArrives_cleanFirst ==
  /\ Len(handlers) < MaxUpdates
  /\ \E u \in Senders, name \in FileNames :
       LET new == [NoHandler EXCEPT !.kind = "document", !.user = u]
           userSession == userSessions[u]
       IN IF name = <<>>
          THEN /\ handlers' = Append(handlers,
                                     [new EXCEPT !.pc = "error",
                                                 !.reply = GenericReply])
               /\ userSessions' = CleanOldSessions(userSessions, now)
          ELSE IF ~endsWith(toLowerCase(name[1]), ".srt")
          THEN /\ handlers' = Append(handlers,
                                     [new EXCEPT !.pc = "rejected",
                                                 !.reply = "send an .srt file"])
               /\ userSessions' = CleanOldSessions(userSessions, now)
          ELSE IF userSession = 0
          THEN /\ handlers' = Append(handlers,
                                     [new EXCEPT !.pc = "rejected",
                                                 !.reply = "send a video first"])
               /\ userSessions' = CleanOldSessions(userSessions, now)
          ELSE /\ userSessions' = CleanOldSessions(userSessions, now)
               /\ handlers' = Append(handlers,
                                     [new EXCEPT !.pc = "getFile",
                                                 !.userSession = userSession])
  /\ UNCHANGED <<sessions, now, dirs>>
  /\ BotFrame

\* bot.on('document') up to await ctx.telegram.getFile(document.file_id):
\* the two rejections, the session lookup, the cleanup of old sessions
DocumentArrives ==
  /\ Len(handlers) < MaxUpdates
  /\ \E u \in Senders, name \in FileNames :
       LET new == [NoHandler EXCEPT !.kind = "document", !.user = u]
           userSession == userSessions[u]
       IN IF name = <<>>
          THEN /\ handlers' = Append(handlers,
                                     [new EXCEPT !.pc = "error",
                                                 !.reply = GenericReply])
               /\ UNCHANGED userSessions
          ELSE IF ~endsWith(toLowerCase(name[1]), ".srt")
          THEN /\ handlers' = Append(handlers,
                                     [new EXCEPT !.pc = "rejected",
                                                 !.reply = "send an .srt file"])
               /\ UNCHANGED userSessions
          ELSE IF userSession = 0
          THEN /\ handlers' = Append(handlers,
                                     [new EXCEPT !.pc = "rejected",
                                                 !.reply = "send a video first"])
               /\ UNCHANGED userSessions
          ELSE /\ userSessions' = CleanOldSessions(userSessions, now)
               /\ handlers' = Append(handlers,
                                     [new EXCEPT !.pc = "getFile",
                                                 !.userSession = userSession])
  /\ UNCHANGED <<sessions, now, dirs>>
  /\ BotFrame

\* getFile has settled: userSession.subtitleUrl and .timestamp are set and
\* the processing message is sent, or the outer catch replies
DocumentGetFile ==
  /\ \E h \in 1..Len(handlers) :
       /\ handlers[h].kind = "document" /\ handlers[h].pc = "getFile"
       /\ \/ /\ sessions' =
                  [sessions EXCEPT ![handlers[h].userSession] =
                     [@ EXCEPT !.subtitleUrl = <<FileUrl(h)>>, !.timestamp = now]]
             /\ handlers' = Set(h, [pc |-> "reply"])
          \/ /\ handlers' = Set(h, [pc |-> "error", reply |-> GenericReply])
             /\ UNCHANGED sessions
  /\ UNCHANGED <<userSessions, now, dirs>>
  /\ BotFrame

\* path.join(tmpdir(), `dub-${userId}-${Date.now()}`)
TempDirName(userId, at) == <<"dub", userId, at>>

\* the processing message has been sent: tempDir is named and made with
\* fs.mkdir(tempDir, {recursive: true}), which accepts an existing directory
DocumentMkdir ==
  /\ \E h \in 1..Len(handlers) :
       /\ handlers[h].kind = "document" /\ handlers[h].pc = "reply"
       /\ \/ /\ handlers' =
                  Set(h, [pc |-> "try",
                          tempDir |-> <<TempDirName(handlers[h].user, now)>>])
             /\ dirs' = dirs \cup {TempDirName(handlers[h].user, now)}
          \/ /\ handlers' = Set(h, [pc |-> "error", reply |-> GenericReply])
             /\ UNCHANGED dirs
  /\ UNCHANGED <<userSessions, sessions, now>>
  /\ BotFrame

\* the try block: the video is fetched from userSession.videoUrl; the block
\* ends with replyWithVideo or with an error thrown by one of its stages
DocumentTry ==
  /\ \E h \in 1..Len(handlers) :
       /\ handlers[h].kind = "document" /\ handlers[h].pc = "try"
       /\ sessions[handlers[h].userSession].videoUrl # <<>>
       /\ \/ handlers' = Set(h, [pc |-> "finally", reply |-> "video"])
          \/ \E e \in JobErrors :
               handlers' = Set(h, [pc |-> "catch", error |-> <<e>>])
  /\ UNCHANGED <<userSessions, sessions, now, dirs>>
  /\ BotFrame

\* catch (error): ctx.reply with error.message in the text
DocumentCatch ==
  /\ \E h \in 1..Len(handlers) :
       /\ handlers[h].kind = "document" /\ handlers[h].pc = "catch"
       /\ handlers' =
            Set(h, [pc |-> "finally",
                    reply |-> FailureReply(handlers[h].error[1].message)])
  /\ UNCHANGED <<userSessions, sessions, now, dirs>>
  /\ BotFrame

\* the finally block without the deletion of the session
DocumentFinally_keepSession ==
  /\ \E h \in 1..Len(handlers) :
       /\ handlers[h].kind = "document" /\ handlers[h].pc = "finally"
       /\ \/ dirs' = dirs \ {handlers[h].tempDir[1]}
          \/ UNCHANGED dirs
       /\ UNCHANGED userSessions
       /\ handlers' = Set(h, [pc |-> IF handlers[h].error = <<>>
                                     THEN "delivered" ELSE "failed",
                               userSession |-> 0, tempDir |-> <<>>])
  /\ UNCHANGED <<sessions, now>>
  /\ BotFrame

\* finally: fs.rm(tempDir, {recursive, force}), its error caught, then
\* userSessions.delete(userId)
DocumentFinally ==
  /\ \E h \in 1..Len(handlers) :
       /\ handlers[h].kind = "document" /\ handlers[h].pc = "finally"
       /\ \/ dirs' = dirs \ {handlers[h].tempDir[1]}
          \/ UNCHANGED dirs
       /\ userSessions' = [userSessions EXCEPT ![handlers[h].user] = 0]
       /\ handlers' = Set(h, [pc |-> IF handlers[h].error = <<>>
                                     THEN "delivered" ELSE "failed",
                               userSession |-> 0, tempDir |-> <<>>])
  /\ UNCHANGED <<sessions, now>>
  /\ BotFrame

NextBot ==
  \/ Tick
  \/ VideoArrives
  \/ VideoStore
  \/ DocumentArrives
  \/ DocumentGetFile
  \/ DocumentMkdir
  \/ DocumentTry
  \/ DocumentCatch
  \/ DocumentFinally

SpecBot == InitBot /\ [][NextBot]_vars

-----------------------------------------------------------------------------
(* Properties of the session map and of concurrent jobs *)

\* the handlers that are inside the try/catch/finally of a job
InJob(h) == handlers[h].pc \in {"try", "catch", "finally"}

JobEnd == {"delivered", "failed"}

\* C21: two jobs in progress at the same time, of one user or of two, never
\* have the same temporary directory.
C21_TempDirsDiffer ==
  \A g, h \in 1..Len(handlers) :
     (g # h /\ InJob(g) /\ InJob(h)) => handlers[g].tempDir # handlers[h].tempDir

\* C22: a job that ends, delivered or failed, leaves the session map without
\* an entry for its user; a job whose directory was made ends in no other way
\* than through its finally block.
C22_SessionDeletedAtJobEnd ==
  [][\A h \in 1..Len(handlers) :
       /\ (handlers[h].pc \notin JobEnd /\ handlers'[h].pc \in JobEnd) =>
            /\ handlers[h].pc = "finally"
            /\ userSessions'[handlers[h].user] = 0
       /\ InJob(h) => handlers'[h].pc \in {"try", "catch", "finally"} \cup JobEnd
    ]_vars

C22_Witness ==
  \E h \in 1..Len(handlers) :
     /\ handlers[h].pc = "failed"
     /\ handlers[h].error # <<>> /\ handlers[h].error[1].stage = "download"
     /\ userSessions[handlers[h].user] = 0
     /\ dirs # {}

\* the handlers whose job failed and has sent its failure reply
Reported(h) ==
  handlers[h].error # <<>> /\ handlers[h].pc \in {"finally", "failed"}

\* C23: the reply sent for a failed job depends on the stage that failed only:
\* two jobs failing in the same stage get the same reply.
C23_ReplyIndependentOfErrorText ==
  \A g, h \in 1..Len(handlers) :
     (Reported(g) /\ Reported(h)
        /\ handlers[g].error[1].stage = handlers[h].error[1].stage)
       => handlers[g].reply = handlers[h].reply

\* the user whose video made session k
Owner(k) == handlers[sessions[k].videoFileId].user

\* no document handler has taken session k for a job
Unconsumed(k) ==
  /\ sessions[k].subtitleUrl = <<>>
  /\ \A h \in 1..Len(handlers) : handlers[h].userSession # k

\* session k is the one of the last video its user sent
Latest(k) == \A j \in (k + 1)..Len(sessions) : Owner(j) # Owner(k)

\* C28: an accepted video stays in the session map for its user's next
\* subtitle upload until a job has consumed it or it is more than an hour
\* old, whatever the other handlers of that user do meanwhile.
C28_AcceptedVideoStaysAvailable ==
  \A k \in 1..Len(sessions) :
     (Unconsumed(k) /\ Latest(k) /\ ~Expired(sessions[k], now))
       => userSessions[Owner(k)] = k

\* C29: a subtitle upload of a user whose session is more than one hour old
\* starts nothing from that session: the handler does not go on with it.
C29_ExpiredSessionStartsNoJob ==
  [][\A u \in Users :
       (/\ Len(handlers') = Len(handlers) + 1
        /\ handlers'[Len(handlers')].kind = "document"
        /\ handlers'[Len(handlers')].user = u
        /\ userSessions[u] # 0
        /\ Expired(sessions[userSessions[u]], now))
       => /\ handlers'[Len(handlers')].pc \in {"rejected", "error"}
          /\ handlers'[Len(handlers')].userSession = 0
    ]_vars

\* C30: a document upload that is rejected (no .srt name, or no session for
\* the user) starts no job, makes no directory and leaves the session map and
\* every session as they were.
C30_RejectionChangesNothing ==
  [][\A h \in 1..Len(handlers') :
       handlers'[h].pc \in {"rejected", "error"} =>
         /\ handlers'[h].tempDir = <<>>
         /\ h > Len(handlers) =>
              /\ userSessions' = userSessions
              /\ sessions' = sessions
              /\ dirs' = dirs
         /\ h <= Len(handlers) /\ handlers[h].pc = "rejected" =>
              handlers'[h] = handlers[h]
    ]_vars

C30_Witness ==
  \E h \in 1..Len(handlers), u \in Users :
     /\ handlers[h].kind = "document" /\ handlers[h].pc = "rejected"
     /\ handlers[h].reply = "send an .srt file"
     /\ userSessions[u] # 0
     /\ Expired(sessions[userSessions[u]], now)

-----------------------------------------------------------------------------
(* detectVoiceType of src/server.js on its own *)

MaxSinhala == 16

RECURSIVE Repeat(_, _)
Repeat(str, n) == IF n = 0 THEN "" ELSE str \o Repeat(str, n - 1)

\* texts of 0 to MaxSinhala characters of the Sinhala range, with and without
\* other characters and punctuation around them
VoiceTexts ==
  {pre \o Repeat("@", n) \o post :
     n \in 0..MaxSinhala, pre \in {"", "Hi! ", "a?"}, post \in {"", "?", "!", " b"}}

\* values of Math.random(), in hundredths, on both sides of 0.4 and 0.7
VoiceRandoms == {0, 39, 40, 69, 70, 71, 99}

InitVoice ==
  /\ TimeIdle /\ ParserIdle /\ JobIdle /\ BotIdle
  /\ voiceText \in VoiceTexts
  /\ voiceRand \in VoiceRandoms
  /\ voiceResult = <<>>

CallDetectVoiceType ==
  /\ voiceResult = <<>>
  /\ voiceResult' = <<detectVoiceType(voiceText, voiceRand)>>
  /\ UNCHANGED <<voiceText, voiceRand, TimeVars, ParserVars, JobVars, BotVars>>

NextVoice == CallDetectVoiceType

SpecVoice == InitVoice /\ [][NextVoice]_vars

\* the characters of text that are in the Sinhala range
InRange(text) == {k \in 1..Len(text) : SubSeq(text, k, k) = "@"}

\* C24: a text with fewer than 15 characters of the Sinhala range gives
\* 'child' whatever the random source yields and whatever punctuation it
\* has; every result is one of child, female, male.
C24_ShortTextIsChild ==
  voiceResult # <<>> =>
    /\ voiceResult[1] \in {"child", "female", "male"}
    /\ Cardinality(InRange(voiceText)) < 15 => voiceResult[1] = "child"

C24_Witness ==
  /\ Cardinality(InRange(voiceText)) = 14
  /\ Len(voiceText) = 17
  /\ voiceRand = 0
  /\ voiceResult = <<"child">>

-----------------------------------------------------------------------------
(* Properties of parseSRT, line by line *)

\* the line is made of decimal digits only
AllDigits(str) == str # "" /\ \A k \in 1..Len(str) : IsDigit(CharAt(str, k))

\* the references held by the array subtitles
PushedCues == {subtitles[k] : k \in 1..Len(subtitles)}

\* C25: a line that is a number is discarded only while no cue is open; while
\* a cue is open it is appended to that cue's text like any other line.
C25_NumberLineJoinsOpenCue ==
  [][(InLoop /\ AllDigits(Trimmed)) =>
       /\ pos' = pos + 1
       /\ subtitles' = subtitles /\ currentSub' = currentSub
       /\ currentSub = 0 => heap' = heap
       /\ currentSub # 0 =>
            heap' = [heap EXCEPT ![currentSub].text =
                       IF @ = "" THEN Trimmed ELSE @ \o "\n" \o Trimmed]
    ]_vars

C25_Witness ==
  /\ ppc = "returned"
  /\ lines = <<"00:01:02.000 --> 00:01:04,500", "Hello", "1">>
  /\ Len(subtitles) = 1
  /\ Returned[1].text = "Hello\n1"

\* C26: a line with '-->' read while a cue is open emits that cue and opens
\* a new one, and the lines that follow go to the new cue, never to a cue
\* that was emitted.
C26_SeparatorClosesOpenCue ==
  [][/\ (InLoop /\ includes(Trimmed, "-->") /\ currentSub # 0 /\ ppc' = "loop") =>
          /\ subtitles' = Append(subtitles, currentSub)
          /\ currentSub' = Len(heap) + 1
          /\ Len(heap') = Len(heap) + 1
     /\ \A k \in PushedCues : heap'[k] = heap[k]
    ]_vars

\* C27: every cue is emitted exactly once: the returned array holds no cue
\* object twice, it has as many cues as were opened, and a cue's text does
\* not change once the cue is in the array.
C27_EachCueEmittedOnce ==
  /\ [](/\ \A j, k \in 1..Len(subtitles) : j # k => subtitles[j] # subtitles[k]
        /\ ppc = "returned" => Len(subtitles) = Len(heap))
  /\ [][\A k \in PushedCues : heap'[k].text = heap[k].text]_vars

-----------------------------------------------------------------------------
(* generateSinhalaSpeech of src/server.js on its own: calls for one text   *)
(* with any voice profile.                                                 *)

MaxCalls == 2

VoiceProfiles == {"child", "female", "male", "other"}

RequestTexts == {"Hi", "@@@@@@@@@@@@@@@?", "@@@@@@@@@@@@@@@@"}

InitRequest ==
  /\ TimeIdle /\ ParserIdle /\ JobIdle /\ BotIdle
  /\ voiceText \in RequestTexts
  /\ voiceRand = 0
  /\ voiceResult = <<>>

CallGenerateSinhalaSpeech ==
  /\ Len(ttsCalls) < MaxCalls
  /\ \E profile \in VoiceProfiles, response \in TtsResponses :
       ttsCalls' =
         Append(ttsCalls,
                [voiceType |-> profile,
                 request |-> TtsRequest(voiceText, profile),
                 response |-> response,
                 outcome |-> generateSinhalaSpeech(voiceText, profile, response)])
  /\ UNCHANGED <<VoiceVars, BotVars, TimeVars, ParserVars, jpc, segIndex,
                 audioSegments, totalDuration, tempFiles, overlays, output,
                 pending, elapsed, ffmpegRuns, outputSize, delivered, failure,
                 tempDir>>

NextRequest == CallGenerateSinhalaSpeech

SpecRequest == InitRequest /\ [][NextRequest]_vars

\* C31: the request depends on the voice profile only through its being
\* 'child': the rate is 0.8 for child and 1.0 otherwise, and for one text
\* the requests of two profiles other than child are the same in every
\* parameter, the language included.
C31_RequestDependsOnChildOnly ==
  \A j, k \in 1..Len(ttsCalls) :
     /\ ttsCalls[j].request.ttsspeed =
          (IF ttsCalls[j].voiceType = "child" THEN "0.8" ELSE "1.0")
     /\ ttsCalls[j].request.tl = "si"
     /\ (/\ ttsCalls[j].request.q = ttsCalls[k].request.q
         /\ (ttsCalls[j].voiceType = "child") = (ttsCalls[k].voiceType = "child"))
          => ttsCalls[j].request = ttsCalls[k].request

C31_Witness ==
  /\ Len(ttsCalls) = 2
  /\ ttsCalls[1].voiceType = "female"
  /\ ttsCalls[2].voiceType = "male"
  /\ ttsCalls[1].request = ttsCalls[2].request
  /\ ttsCalls[1].request.ttsspeed = "1.0"

====
